---- MODULE Spec2Model ----
(***************************************************************************)
(* Model of the Kubernetes datastore backend adapter                       *)
(* (libcalico-go/lib/backend/k8s/k8s.go): the resource-client registry     *)
(* built by NewKubeClient, the dispatch operations of KubeClient, Apply,   *)
(* Clean, the client configuration built by CreateKubernetesClientset and  *)
(* the host tunnel-address synthesis.                                      *)
(***************************************************************************)
EXTENDS Integers, Sequences, FiniteSets, TLC

VARIABLES
    newPc,                  \* position of the caller running NewKubeClient
    regIdx,                 \* registerResourceClient calls NewKubeClient has made
    usePodCIDR,             \* ca.K8sUsePodCIDR handed to NewKubeClient
    clientsByResourceKind,  \* KubeClient.clientsByResourceKind
    clientsByKeyType,       \* KubeClient.clientsByKeyType
    clientsByListType,      \* KubeClient.clientsByListType
    newErr,                 \* error returned by the last NewKubeClient call
    store,                  \* objects held by the API server, per resource client type
    nextRev,                \* next resourceVersion the API server hands out
    calls,                  \* handler methods invoked by the last dispatch operation
    ret,                    \* what the last dispatch operation returned
    applyPc,                \* position of the caller running Apply
    applyKvp,               \* the KVPair the caller handed to Apply
    applyCalls,             \* the c.Create / c.Update calls that Apply has made
    applyRet,               \* what that Apply returned
    cleanPc,                \* position of the caller running Clean
    cleanIdx,               \* index of the kind / list type Clean is working on
    cleanItems,             \* KVPairs of the current listing still to be handled
    cleanListed,            \* list queries Clean has issued so far
    cleanAttempts,          \* delete attempts Clean has made, per listed KVPair key
    cleanUpdates,           \* Update calls Clean has made on nodes
    cleanCalls,             \* handler calls made on behalf of Clean, in order
    cleanRet,               \* what Clean returned
    config,                 \* rest.Config produced by CreateKubernetesClientset
    configErr,              \* error returned by CreateKubernetesClientset
    configCa,               \* the CalicoAPIConfigSpec it was given
    fillKubeConfig,         \* kubeConfig handed to fillLoadingRulesFromKubeConfigSpec
    fillRules,              \* the ClientConfigLoadingRules it fills
    nodes,                  \* v1.Node objects of the cluster: hostname -> Spec.PodCIDR
    hostRet                 \* what the last listHostConfig call returned

vars == <<newPc, regIdx, usePodCIDR, clientsByResourceKind, clientsByKeyType,
          clientsByListType, newErr, store, nextRev, calls, ret,
          applyPc, applyKvp, applyCalls, applyRet,
          cleanPc, cleanIdx, cleanItems, cleanListed, cleanAttempts,
          cleanUpdates, cleanCalls, cleanRet, config, configErr, configCa,
          fillKubeConfig,
          fillRules, nodes, hostRet>>

registryVars == <<newPc, regIdx, usePodCIDR, clientsByResourceKind,
                  clientsByKeyType, clientsByListType, newErr>>
applyVars == <<applyPc, applyKvp, applyCalls, applyRet>>
cleanVars == <<cleanPc, cleanIdx, cleanItems, cleanListed, cleanAttempts,
               cleanUpdates, cleanCalls, cleanRet>>
configVars == <<config, configErr, configCa, fillKubeConfig, fillRules>>
hostVars == <<nodes, hostRet>>

----------------------------------------------------------------------------
(* Bounds of the model. *)

\* Highest resourceVersion the API server hands out.
MaxRev == 3

\* Object names used by callers.
Names == {"a"}

\* Payloads callers write.
Data == {1, 2}

----------------------------------------------------------------------------
(* Keys, list queries, KVPairs and errors. *)

resourceKeyType == "ResourceKey"
resourceListType == "ResourceListOptions"

\* reflect.Type of a nil interface value.
NilType == "nil"

ResourceKey(kind, name) == [type |-> resourceKeyType, kind |-> kind, name |-> name]
NarrowKey(type, name) == [type |-> type, kind |-> "", name |-> name]
ResourceListOptions(kind) == [type |-> resourceListType, kind |-> kind, name |-> ""]
NarrowList(type) == [type |-> type, kind |-> "", name |-> ""]
NilList == [type |-> NilType, kind |-> "", name |-> ""]
NoKey == [type |-> "none", kind |-> "", name |-> ""]

\* Resource payload; Spec.BGP is only meaningful for a Node.
Value(data, bgp) == [data |-> data, bgp |-> bgp]
NoValue == [data |-> 0, bgp |-> 0]

KVPair(key, value, revision) == [Key |-> key, Value |-> value, Revision |-> revision]
NilKVP == KVPair(NoKey, NoValue, 0)

\* The empty revision string.
NoRev == 0

NoErr == [type |-> "nil", Identifier |-> NoKey, Operation |-> ""]
ErrorOperationNotSupported(id, op) ==
    [type |-> "ErrorOperationNotSupported", Identifier |-> id, Operation |-> op]
ErrorResourceAlreadyExists(id) ==
    [type |-> "ErrorResourceAlreadyExists", Identifier |-> id, Operation |-> ""]
ErrorResourceDoesNotExist(id) ==
    [type |-> "ErrorResourceDoesNotExist", Identifier |-> id, Operation |-> ""]
ErrorResourceUpdateConflict(id) ==
    [type |-> "ErrorResourceUpdateConflict", Identifier |-> id, Operation |-> ""]
ErrorDatastoreError(id) ==
    [type |-> "ErrorDatastoreError", Identifier |-> id, Operation |-> ""]

----------------------------------------------------------------------------
(* The resource-client registry. *)

\* A resources.K8sResourceClient: the constructor that built it and the
\* position of that constructor call in NewKubeClient (its identity).
Client(ctor, inst) == [ctor |-> ctor, inst |-> inst]
NilClient == Client("nil", 0)

Reg(keyType, listType, kind, ctor) ==
    [keyType |-> keyType, listType |-> listType, kind |-> kind, ctor |-> ctor]
GenericReg(kind, ctor) == Reg(resourceKeyType, resourceListType, kind, ctor)

\* The registerResourceClient calls NewKubeClient always makes, in order.
GenericRegistrations == <<
    GenericReg("IPPool", "NewIPPoolClient"),
    GenericReg("IPReservation", "NewIPReservationClient"),
    GenericReg("GlobalNetworkPolicy", "NewGlobalNetworkPolicyClient"),
    GenericReg("StagedGlobalNetworkPolicy", "NewStagedGlobalNetworkPolicyClient"),
    GenericReg("KubernetesAdminNetworkPolicy", "NewKubernetesAdminNetworkPolicyClient"),
    GenericReg("KubernetesBaselineAdminNetworkPolicy", "NewKubernetesBaselineAdminNetworkPolicyClient"),
    GenericReg("GlobalNetworkSet", "NewGlobalNetworkSetClient"),
    GenericReg("NetworkPolicy", "NewNetworkPolicyClient"),
    GenericReg("StagedNetworkPolicy", "NewStagedNetworkPolicyClient"),
    GenericReg("KubernetesNetworkPolicy", "NewKubernetesNetworkPolicyClient"),
    GenericReg("StagedKubernetesNetworkPolicy", "NewStagedKubernetesNetworkPolicyClient"),
    GenericReg("KubernetesEndpointSlice", "NewKubernetesEndpointSliceClient"),
    GenericReg("NetworkSet", "NewNetworkSetClient"),
    GenericReg("Tier", "NewTierClient"),
    GenericReg("BGPPeer", "NewBGPPeerClient"),
    GenericReg("BGPConfiguration", "NewBGPConfigClient"),
    GenericReg("FelixConfiguration", "NewFelixConfigClient"),
    GenericReg("ClusterInformation", "NewClusterInfoClient"),
    GenericReg("Node", "NewNodeClient"),
    GenericReg("Profile", "NewProfileClient"),
    GenericReg("HostEndpoint", "NewHostEndpointClient"),
    GenericReg("WorkloadEndpoint", "NewWorkloadEndpointClient"),
    GenericReg("KubeControllersConfiguration", "NewKubeControllersConfigClient"),
    GenericReg("CalicoNodeStatus", "NewCalicoNodeStatusClient"),
    GenericReg("KubernetesService", "NewServiceClient"),
    GenericReg("IPAMConfig", "NewIPAMConfigClient"),
    GenericReg("BlockAffinity", "NewBlockAffinityClient"),
    GenericReg("BGPFilter", "NewBGPFilterClient") >>

IPAMRegistrations_WrongClient == <<
    Reg("BlockAffinityKey", "BlockAffinityListOptions", "BlockAffinity", "NewIPAMBlockClient"),
    Reg("BlockKey", "BlockListOptions", "IPAMBlock", "NewIPAMBlockClient"),
    Reg("IPAMHandleKey", "IPAMHandleListOptions", "IPAMHandle", "NewIPAMHandleClient"),
    Reg("IPAMConfigKey", NilType, "IPAMConfig", "NewIPAMConfigClient") >>

\* The registerResourceClient calls made inside `if !ca.K8sUsePodCIDR`.
IPAMRegistrations == <<
    Reg("BlockAffinityKey", "BlockAffinityListOptions", "BlockAffinity", "NewBlockAffinityClient"),
    Reg("BlockKey", "BlockListOptions", "IPAMBlock", "NewIPAMBlockClient"),
    Reg("IPAMHandleKey", "IPAMHandleListOptions", "IPAMHandle", "NewIPAMHandleClient"),
    Reg("IPAMConfigKey", NilType, "IPAMConfig", "NewIPAMConfigClient") >>

\* The condition guarding the IPAM registrations.
RegistersIPAM_Inverted(podCIDR) == podCIDR
RegistersIPAM(podCIDR) == ~podCIDR

Registrations(podCIDR) ==
    IF RegistersIPAM(podCIDR)
    THEN GenericRegistrations \o IPAMRegistrations
    ELSE GenericRegistrations

EmptyMap == << >>
MapSet(m, k, v) == (k :> v) @@ m
MapGet(m, k) == IF k \in DOMAIN m THEN m[k] ELSE NilClient

Tables(byKind, byKey, byList) == [byKind |-> byKind, byKey |-> byKey, byList |-> byList]

\* c.registerResourceClient(keyType, listType, resourceKind, client)
registerResourceClient_AlsoByKind(t, keyType, listType, resourceKind, client) ==
    IF keyType = resourceKeyType
    THEN Tables(MapSet(t.byKind, resourceKind, client), t.byKey, t.byList)
    ELSE Tables(MapSet(t.byKind, resourceKind, client),
                MapSet(t.byKey, keyType, client),
                MapSet(t.byList, listType, client))
registerResourceClient(t, keyType, listType, resourceKind, client) ==
    IF keyType = resourceKeyType
    THEN Tables(MapSet(t.byKind, resourceKind, client), t.byKey, t.byList)
    ELSE Tables(t.byKind, MapSet(t.byKey, keyType, client),
                MapSet(t.byList, listType, client))

getResourceClientFromKey(key) ==
    IF key.type = resourceKeyType
    THEN MapGet(clientsByResourceKind, key.kind)
    ELSE MapGet(clientsByKeyType, key.type)

getResourceClientFromList_ByListType(list) ==
    MapGet(clientsByListType, list.type)
getResourceClientFromList(list) ==
    IF list.type = resourceListType
    THEN MapGet(clientsByResourceKind, list.kind)
    ELSE MapGet(clientsByListType, list.type)

----------------------------------------------------------------------------
(* The resource clients (package resources) and the API server behind them. *)

\* Constructors of the registered clients; a client's objects live in the
\* API server under the resource type its constructor binds it to.
Ctors == {GenericRegistrations[i].ctor : i \in DOMAIN GenericRegistrations}
             \cup {IPAMRegistrations[i].ctor : i \in DOMAIN IPAMRegistrations}

\* Name of the single global IPAM-config object (model.IPAMConfigGlobalName).
IPAMConfigGlobalName == "default"

StoreNames == Names \cup {IPAMConfigGlobalName}

\* The API server holds the objects in DOMAIN store.
Absent == [value |-> NoValue, rev |-> 0]
EmptyStore == << >>
Stored(st, id) == IF id \in DOMAIN st THEN st[id] ELSE Absent
StorePut(st, id, obj) == (id :> obj) @@ st
StoreRemove(st, id) == [x \in DOMAIN st \ {id} |-> st[x]]

ObjName(key) == IF key.type = "IPAMConfigKey" THEN IPAMConfigGlobalName ELSE key.name
ObjId(client, key) == <<client.ctor, ObjName(key)>>

\* Key type of the KVPairs a listing of the given list type returns.
KeyTypeOfList(list) ==
    CASE list.type = resourceListType -> resourceKeyType
      [] list.type = "BlockAffinityListOptions" -> "BlockAffinityKey"
      [] list.type = "BlockListOptions" -> "BlockKey"
      [] list.type = "IPAMHandleListOptions" -> "IPAMHandleKey"
      [] OTHER -> "IPAMConfigKey"

Call(client, method, key, value, revision) ==
    [client |-> client, method |-> method, key |-> key, value |-> value,
     revision |-> revision]

\* What one call returns and leaves behind.
Answered(c, res, list, err) ==
    [client |-> c.client, method |-> c.method, key |-> c.key,
     value |-> c.value, revision |-> c.revision,
     res |-> res, list |-> list, err |-> err]
Outcome(res, list, err, st, rev, cs) ==
    [res |-> res, list |-> list, err |-> err, store |-> st, nextRev |-> rev,
     calls |-> [i \in DOMAIN cs |-> Answered(cs[i], res, list, err)]]

\* An outcome that changes nothing in the API server.
Reads(res, list, err, cs) == Outcome(res, list, err, store, nextRev, cs)

\* Any request may fail in transport.
Unavailable(key, cs) == Reads(NilKVP, {}, ErrorDatastoreError(key), cs)

ClientCreate(client, kvp) ==
    LET id == ObjId(client, kvp.Key)
        cs == <<Call(client, "Create", kvp.Key, kvp.Value, kvp.Revision)>>
    IN  {Unavailable(kvp.Key, cs)} \cup
        IF Stored(store, id) # Absent
        THEN {Reads(NilKVP, {}, ErrorResourceAlreadyExists(kvp.Key), cs)}
        ELSE IF nextRev > MaxRev THEN {}
        ELSE {Outcome(KVPair(kvp.Key, kvp.Value, nextRev), {}, NoErr,
                      StorePut(store, id, [value |-> kvp.Value, rev |-> nextRev]),
                      nextRev + 1, cs)}

ClientUpdate(client, kvp) ==
    LET id == ObjId(client, kvp.Key)
        cs == <<Call(client, "Update", kvp.Key, kvp.Value, kvp.Revision)>>
    IN  {Unavailable(kvp.Key, cs)} \cup
        IF Stored(store, id) = Absent
        THEN {Reads(NilKVP, {}, ErrorResourceDoesNotExist(kvp.Key), cs)}
        ELSE IF kvp.Revision # NoRev /\ kvp.Revision # store[id].rev
        THEN {Reads(NilKVP, {}, ErrorResourceUpdateConflict(kvp.Key), cs)}
        ELSE IF nextRev > MaxRev THEN {}
        ELSE {Outcome(KVPair(kvp.Key, kvp.Value, nextRev), {}, NoErr,
                      StorePut(store, id, [value |-> kvp.Value, rev |-> nextRev]),
                      nextRev + 1, cs)}

DeleteFrom(client, key, revision, cs) ==
    LET id == ObjId(client, key)
    IN  {Unavailable(key, cs)} \cup
        IF Stored(store, id) = Absent
        THEN {Reads(NilKVP, {}, ErrorResourceDoesNotExist(key), cs)}
        ELSE IF revision # NoRev /\ revision # store[id].rev
        THEN {Reads(NilKVP, {}, ErrorResourceUpdateConflict(key), cs)}
        ELSE {Outcome(KVPair(key, store[id].value, store[id].rev), {}, NoErr,
                      StoreRemove(store, id), nextRev, cs)}

ClientDelete(client, key, revision) ==
    DeleteFrom(client, key, revision,
               <<Call(client, "Delete", key, NoValue, revision)>>)

ClientDeleteKVP(client, kvp) ==
    DeleteFrom(client, kvp.Key, kvp.Revision,
               <<Call(client, "DeleteKVP", kvp.Key, kvp.Value, kvp.Revision)>>)

ClientGet(client, key, revision) ==
    LET id == ObjId(client, key)
        cs == <<Call(client, "Get", key, NoValue, revision)>>
    IN  {Unavailable(key, cs)} \cup
        IF Stored(store, id) = Absent
        THEN {Reads(NilKVP, {}, ErrorResourceDoesNotExist(key), cs)}
        ELSE {Reads(KVPair(key, store[id].value, store[id].rev), {}, NoErr, cs)}

ClientList(client, list, revision) ==
    LET cs == <<Call(client, "List", list, NoValue, revision)>>
        key(n) == [type |-> KeyTypeOfList(list), kind |-> list.kind, name |-> n]
    IN  {Unavailable(list, cs),
         Reads(NilKVP,
               {KVPair(key(n), store[<<client.ctor, n>>].value,
                       store[<<client.ctor, n>>].rev) :
                   n \in {m \in StoreNames : <<client.ctor, m>> \in DOMAIN store}},
               NoErr, cs)}

ClientWatch(client, list) ==
    LET cs == <<Call(client, "Watch", list, NoValue, NoRev)>>
    IN  {Unavailable(list, cs), Reads(NilKVP, {}, NoErr, cs)}

----------------------------------------------------------------------------
(* The dispatch operations of KubeClient. *)

\* return nil, cerrors.ErrorOperationNotSupported{Identifier: id, Operation: op}
NotSupported(id, op) == Reads(NilKVP, {}, ErrorOperationNotSupported(id, op), <<>>)

CreateOutcomes_NoNilCheck(d) == ClientCreate(getResourceClientFromKey(d.Key), d)
CreateOutcomes(d) ==
    LET client == getResourceClientFromKey(d.Key)
    IN  IF client = NilClient THEN {NotSupported(d.Key, "Create")}
        ELSE ClientCreate(client, d)

UpdateOutcomes(d) ==
    LET client == getResourceClientFromKey(d.Key)
    IN  IF client = NilClient THEN {NotSupported(d.Key, "Update")}
        ELSE ClientUpdate(client, d)

DeleteKVPOutcomes_ViaDelete(kvp) ==
    LET client == getResourceClientFromKey(kvp.Key)
    IN  IF client = NilClient THEN {NotSupported(kvp.Key, "Delete")}
        ELSE ClientDelete(client, kvp.Key, kvp.Revision)
DeleteKVPOutcomes(kvp) ==
    LET client == getResourceClientFromKey(kvp.Key)
    IN  IF client = NilClient THEN {NotSupported(kvp.Key, "Delete")}
        ELSE ClientDeleteKVP(client, kvp)

DeleteOutcomes(k, revision) ==
    LET client == getResourceClientFromKey(k)
    IN  IF client = NilClient THEN {NotSupported(k, "Delete")}
        ELSE ClientDelete(client, k, revision)

GetOutcomes(k, revision) ==
    LET client == getResourceClientFromKey(k)
    IN  IF client = NilClient THEN {NotSupported(k, "Get")}
        ELSE ClientGet(client, k, revision)

ListOutcomes(l, revision) ==
    LET client == getResourceClientFromList(l)
    IN  IF client = NilClient THEN {NotSupported(l, "List")}
        ELSE ClientList(client, l, revision)

WatchOutcomes(l) ==
    LET client == getResourceClientFromList(l)
    IN  IF client = NilClient THEN {NotSupported(l, "Watch")}
        ELSE ClientWatch(client, l)

----------------------------------------------------------------------------
(* Construction of the adapter. *)

\* Where NewKubeClient can fail: CreateKubernetesClientset,
\* buildCRDClientV1, buildK8SAdminPolicyClient.
BuildFailures == {"config", "clientset", "crd", "adminpolicy"}

\* NewKubeClient goes on to build the adapter only if nothing failed.
BuildsAdapter_DespiteAdminPolicy(failure) == failure \in {"none", "adminpolicy"}
BuildsAdapter(failure) == failure = "none"

\* NewKubeClient is called: the three API clients are built, and the empty
\* tables are made, or the first failure is returned with a nil adapter.
NewKubeClient ==
    /\ newPc = "new"
    /\ \E podCIDR \in BOOLEAN, failure \in BuildFailures \cup {"none"} :
          /\ usePodCIDR' = podCIDR
          /\ newErr' = failure
          /\ newPc' = IF BuildsAdapter(failure) THEN "register" ELSE "new"
    /\ UNCHANGED <<regIdx, clientsByResourceKind, clientsByKeyType,
                   clientsByListType, store, nextRev, calls, ret, applyVars,
                   cleanVars, configVars, hostVars>>

\* The next registerResourceClient call of NewKubeClient; its client is
\* freshly constructed, identified by the position of the call.  After the
\* last one NewKubeClient returns the adapter.
Register ==
    /\ newPc = "register"
    /\ LET made == Registrations(usePodCIDR)
           n == regIdx + 1
           t == registerResourceClient(
                    Tables(clientsByResourceKind, clientsByKeyType, clientsByListType),
                    made[n].keyType, made[n].listType, made[n].kind,
                    Client(made[n].ctor, n))
       IN  /\ regIdx' = n
           /\ clientsByResourceKind' = t.byKind
           /\ clientsByKeyType' = t.byKey
           /\ clientsByListType' = t.byList
           /\ newPc' = IF n = Len(made) THEN "done" ELSE "register"
    /\ UNCHANGED <<usePodCIDR, newErr, store, nextRev, calls, ret, applyVars,
                   cleanVars, configVars, hostVars>>

\* NewKubeClient has returned a non-nil adapter.
constructed_BeforeRegistration == newPc \in {"register", "done"}
constructed == newPc = "done"

----------------------------------------------------------------------------
(* Dispatch operations issued by a caller. *)

Ret(op, arg, value, revision, o) ==
    [op |-> op, arg |-> arg, value |-> value, revision |-> revision,
     res |-> o.res, list |-> o.list, err |-> o.err]
NoRet == [op |-> "", arg |-> NoKey, value |-> NoValue, revision |-> NoRev,
          res |-> NilKVP, list |-> {}, err |-> NoErr]

\* The call returns: the API server holds what the outcome left behind.
Returns(op, arg, value, revision, o) ==
    /\ store' = o.store
    /\ nextRev' = o.nextRev
    /\ calls' = o.calls
    /\ ret' = Ret(op, arg, value, revision, o)
    /\ UNCHANGED <<registryVars, applyVars, cleanVars, configVars, hostVars>>

\* Revisions a caller can hold: none, or one the API server has handed out.
Revisions == 0 .. (nextRev - 1)

KVPairsOf(keys) ==
    {KVPair(k, Value(d, 0), r) : k \in keys, d \in Data, r \in Revisions}

Create(keys) ==
    /\ constructed
    /\ \E d \in KVPairsOf(keys) : \E o \in CreateOutcomes(d) :
          Returns("Create", d.Key, d.Value, d.Revision, o)

Update(keys) ==
    /\ constructed
    /\ \E d \in KVPairsOf(keys) : \E o \in UpdateOutcomes(d) :
          Returns("Update", d.Key, d.Value, d.Revision, o)

DeleteKVP(keys) ==
    /\ constructed
    /\ \E kvp \in KVPairsOf(keys) : \E o \in DeleteKVPOutcomes(kvp) :
          Returns("DeleteKVP", kvp.Key, kvp.Value, kvp.Revision, o)

Delete(keys) ==
    /\ constructed
    /\ \E k \in keys, revision \in Revisions : \E o \in DeleteOutcomes(k, revision) :
          Returns("Delete", k, NoValue, revision, o)

Get(keys) ==
    /\ constructed
    /\ \E k \in keys : \E o \in GetOutcomes(k, NoRev) :
          Returns("Get", k, NoValue, NoRev, o)

List(lists) ==
    /\ constructed
    /\ \E l \in lists : \E o \in ListOutcomes(l, NoRev) :
          Returns("List", l, NoValue, NoRev, o)

Watch(lists) ==
    /\ constructed
    /\ \E l \in lists : \E o \in WatchOutcomes(l) :
          Returns("Watch", l, NoValue, NoRev, o)

----------------------------------------------------------------------------
(* Apply, run by a caller of its own: the Create and the Update it makes   *)
(* are separate requests, between which other callers' requests may land.  *)

\* if _, ok := err.(cerrors.ErrorResourceAlreadyExists); !ok { return nil, err }
ApplyFallsBack_AnyError(err) == err # NoErr
ApplyFallsBack(err) == err.type = "ErrorResourceAlreadyExists"

\* The KVPair Apply hands to Create.
ApplyCreateArg_KeepsRevision(kvp) == kvp
ApplyCreateArg(kvp) == KVPair(kvp.Key, kvp.Value, NoRev)

\* The KVPair Apply hands to Update.
ApplyUpdateArg_Stripped(kvp) == KVPair(kvp.Key, kvp.Value, NoRev)
ApplyUpdateArg(kvp) == kvp

\* Where Apply goes once its Update has returned.
ApplyAfterUpdate_Retry(err) ==
    IF err.type = "ErrorResourceDoesNotExist" THEN "create" ELSE "done"
ApplyAfterUpdate(err) == "done"

ApplyRetOf(res, err) == [res |-> res, err |-> err]

\* A call Apply made on the adapter, with what it returned.
ApplyCalled(op, arg, o) == [op |-> op, arg |-> arg, res |-> o.res, err |-> o.err]

ApplyCall(keys) ==
    /\ constructed
    /\ applyPc = "idle"
    /\ \E kvp \in KVPairsOf(keys) :
          /\ applyKvp' = kvp
          /\ applyPc' = "create"
          /\ applyCalls' = <<>>
          /\ applyRet' = ApplyRetOf(NilKVP, NoErr)
    /\ UNCHANGED <<registryVars, store, nextRev, calls, ret, cleanVars,
                   configVars, hostVars>>

ApplyCreate ==
    /\ applyPc = "create"
    /\ \E o \in CreateOutcomes(ApplyCreateArg(applyKvp)) :
          /\ store' = o.store
          /\ nextRev' = o.nextRev
          /\ applyCalls' =
                 Append(applyCalls, ApplyCalled("Create", ApplyCreateArg(applyKvp), o))
          /\ IF o.err = NoErr
             THEN applyPc' = "done" /\ applyRet' = ApplyRetOf(o.res, NoErr)
             ELSE IF ApplyFallsBack(o.err)
             THEN applyPc' = "update" /\ UNCHANGED applyRet
             ELSE applyPc' = "done" /\ applyRet' = ApplyRetOf(NilKVP, o.err)
    /\ UNCHANGED <<registryVars, applyKvp, calls, ret, cleanVars, configVars,
                   hostVars>>

ApplyUpdate ==
    /\ applyPc = "update"
    /\ \E o \in UpdateOutcomes(ApplyUpdateArg(applyKvp)) :
          /\ store' = o.store
          /\ nextRev' = o.nextRev
          /\ applyCalls' =
                 Append(applyCalls, ApplyCalled("Update", ApplyUpdateArg(applyKvp), o))
          /\ applyPc' = IF o.err = NoErr THEN "done" ELSE ApplyAfterUpdate(o.err)
          /\ applyRet' = IF o.err = NoErr THEN ApplyRetOf(o.res, NoErr)
                         ELSE ApplyRetOf(NilKVP, o.err)
    /\ UNCHANGED <<registryVars, applyKvp, calls, ret, cleanVars, configVars,
                   hostVars>>

\* Apply has returned; the caller may call it again.
ApplyReturn ==
    /\ applyPc = "done"
    /\ applyPc' = "idle"
    /\ applyKvp' = NilKVP
    /\ applyCalls' = <<>>
    /\ applyRet' = ApplyRetOf(NilKVP, NoErr)
    /\ UNCHANGED <<registryVars, store, nextRev, calls, ret, cleanVars,
                   configVars, hostVars>>

----------------------------------------------------------------------------
(* Clean, run by a caller of its own; every List, Delete, DeleteKVP and    *)
(* Update it makes is a separate request.                                  *)

\* kinds := []string{...}
CleanKinds == <<
    "BGPConfiguration", "BGPPeer", "ClusterInformation", "CalicoNodeStatus",
    "FelixConfiguration", "GlobalNetworkPolicy", "StagedGlobalNetworkPolicy",
    "NetworkPolicy", "StagedNetworkPolicy", "StagedKubernetesNetworkPolicy",
    "Tier", "GlobalNetworkSet", "NetworkSet", "IPPool", "IPReservation",
    "HostEndpoint", "KubeControllersConfiguration", "IPAMConfig",
    "BlockAffinity", "BGPFilter" >>

\* The list types of the IPAM clean-up loop.
CleanIPAMLists == <<
    NarrowList("BlockListOptions"),
    NarrowList("BlockAffinityListOptions"),
    NarrowList("BlockAffinityListOptions"),
    NarrowList("IPAMHandleListOptions") >>

\* The list query Clean issues at a position.
CleanQuery(pc, idx) ==
    CASE pc = "kinds.list" -> ResourceListOptions(CleanKinds[idx])
      [] pc = "ipam.list" -> CleanIPAMLists[idx]
      [] OTHER -> ResourceListOptions("Node")

\* Where Clean goes once it is through with the listing at a position.
CleanAfter(pc, idx) ==
    CASE pc \in {"kinds.list", "kinds.delete"} ->
             IF idx < Len(CleanKinds) THEN <<"kinds.list", idx + 1>>
             ELSE <<"ipam.list", 1>>
      [] pc \in {"ipam.list", "ipam.delete"} ->
             IF idx < Len(CleanIPAMLists) THEN <<"ipam.list", idx + 1>>
             ELSE <<"nodes.list", 1>>
      [] OTHER -> <<"ipamconfig", 1>>

\* The loop that handles the KVPairs of a listing.
CleanLoop(pc) ==
    CASE pc = "kinds.list" -> "kinds.delete"
      [] pc = "ipam.list" -> "ipam.delete"
      [] OTHER -> "nodes.update"

\* Counts one more delete attempt for a listed key.
Attempted(attempts, key) == (key :> (attempts[key] + 1)) @@ attempts

\* Notes the keys of a listing, with no attempt made yet on the new ones.
Listed(attempts, kvps) ==
    attempts @@ [k \in {r.Key : r \in kvps} |-> 0]

\* The handler calls of one request of Clean, each with its handler, method
\* and key; a call on the Node handler also with the value and revision it
\* was given and the KVPairs it listed.
CleanLogged(cs) ==
    [i \in DOMAIN cs |->
        IF cs[i].client.ctor = "NewNodeClient"
        THEN [client |-> cs[i].client, method |-> cs[i].method,
              key |-> cs[i].key, value |-> cs[i].value,
              revision |-> cs[i].revision, list |-> cs[i].list]
        ELSE [client |-> cs[i].client, method |-> cs[i].method,
              key |-> cs[i].key, value |-> NoValue, revision |-> NoRev,
              list |-> {}]]

CleanCall ==
    /\ constructed
    /\ cleanPc = "idle"
    /\ cleanPc' = "kinds.list"
    /\ cleanIdx' = 1
    /\ UNCHANGED <<registryVars, store, nextRev, calls, ret, applyVars,
                   cleanItems, cleanListed, cleanAttempts, cleanUpdates,
                   cleanCalls, cleanRet, configVars, hostVars>>

\* if rs, err := c.List(ctx, lo, ""); err != nil { log } else { for ... }
CleanList ==
    /\ cleanPc \in {"kinds.list", "ipam.list", "nodes.list"}
    /\ LET l == CleanQuery(cleanPc, cleanIdx)
       IN  \E o \in ListOutcomes(l, NoRev) :
              /\ cleanListed' = Append(cleanListed, l)
              /\ cleanCalls' = cleanCalls \o CleanLogged(o.calls)
              /\ cleanItems' = IF o.err = NoErr THEN o.list ELSE {}
              /\ cleanAttempts' =
                    IF o.err = NoErr /\ cleanPc # "nodes.list"
                    THEN Listed(cleanAttempts, o.list) ELSE cleanAttempts
              /\ IF o.err = NoErr /\ o.list # {}
                 THEN cleanPc' = CleanLoop(cleanPc) /\ UNCHANGED cleanIdx
                 ELSE /\ cleanPc' = CleanAfter(cleanPc, cleanIdx)[1]
                      /\ cleanIdx' = CleanAfter(cleanPc, cleanIdx)[2]
    /\ UNCHANGED <<registryVars, store, nextRev, calls, ret, applyVars,
                   cleanUpdates, cleanRet, configVars, hostVars>>

\* The request Clean makes for one KVPair of the current listing.
CleanItemOutcomes_DeletesNodes(pc, r) ==
    CASE pc = "kinds.delete" -> DeleteOutcomes(r.Key, r.Revision)
      [] pc = "ipam.delete" -> DeleteKVPOutcomes(r)
      [] OTHER -> DeleteOutcomes(r.Key, r.Revision)
CleanItemOutcomes(pc, r) ==
    CASE pc = "kinds.delete" -> DeleteOutcomes(r.Key, r.Revision)
      [] pc = "ipam.delete" -> DeleteKVPOutcomes(r)
      [] OTHER -> UpdateOutcomes(KVPair(r.Key, [r.Value EXCEPT !.bgp = 0], r.Revision))

\* One turn of the loop over the KVPairs of a listing; an error is logged.
CleanItem ==
    /\ cleanPc \in {"kinds.delete", "ipam.delete", "nodes.update"}
    /\ \E r \in cleanItems : \E o \in CleanItemOutcomes(cleanPc, r) :
          /\ store' = o.store
          /\ nextRev' = o.nextRev
          /\ cleanItems' = cleanItems \ {r}
          /\ cleanCalls' = cleanCalls \o CleanLogged(o.calls)
          /\ IF cleanPc = "nodes.update"
             THEN /\ cleanUpdates' =
                        Append(cleanUpdates,
                               KVPair(r.Key, [r.Value EXCEPT !.bgp = 0], r.Revision))
                  /\ UNCHANGED cleanAttempts
             ELSE /\ cleanAttempts' = Attempted(cleanAttempts, r.Key)
                  /\ UNCHANGED cleanUpdates
          /\ IF cleanItems = {r}
             THEN /\ cleanPc' = CleanAfter(cleanPc, cleanIdx)[1]
                  /\ cleanIdx' = CleanAfter(cleanPc, cleanIdx)[2]
             ELSE UNCHANGED <<cleanPc, cleanIdx>>
    /\ UNCHANGED <<registryVars, calls, ret, applyVars, cleanListed, cleanRet,
                   configVars, hostVars>>

\* c.Delete(ctx, model.IPAMConfigKey{}, ""), then return nil.
CleanDeleteIPAMConfig ==
    /\ cleanPc = "ipamconfig"
    /\ \E o \in DeleteOutcomes(NarrowKey("IPAMConfigKey", ""), NoRev) :
          /\ store' = o.store
          /\ nextRev' = o.nextRev
          /\ cleanCalls' = cleanCalls \o CleanLogged(o.calls)
          /\ cleanAttempts' =
                Attempted(Listed(cleanAttempts,
                                 {KVPair(NarrowKey("IPAMConfigKey", ""), NoValue, NoRev)}),
                          NarrowKey("IPAMConfigKey", ""))
    /\ cleanPc' = "done"
    /\ cleanRet' = "nil"
    /\ UNCHANGED <<registryVars, calls, ret, applyVars, cleanIdx, cleanItems,
                   cleanListed, cleanUpdates, configVars, hostVars>>

----------------------------------------------------------------------------
(* The client configuration. *)

\* A configuration setting that was not given.
Unset == ""

\* No rest.Config (nil).
NoConfig == [loaded |-> FALSE]

\* The fields of clientcmd.ConfigOverrides that CreateKubernetesClientset
\* fills from a string of the CalicoAPIConfigSpec.
overridesMap ==
    [CurrentContext |-> "K8sCurrentContext",
     Server |-> "K8sAPIEndpoint",
     ClientCertificate |-> "K8sCertFile",
     ClientKey |-> "K8sKeyFile",
     CertificateAuthority |-> "K8sCAFile",
     Token |-> "K8sAPIToken"]

\* The OS path-list separator.
ListSeparator == ":"

\* filepath.SplitList: the entries of a path list, a string of characters.
RECURSIVE SplitList(_)
SplitList(path) ==
    IF path = <<>> THEN <<>>
    ELSE IF Len(path) = 1
    THEN IF path[1] = ListSeparator THEN << <<>>, <<>> >> ELSE <<path>>
    ELSE LET front == SplitList(SubSeq(path, 1, Len(path) - 1))
             c == path[Len(path)]
         IN  IF c = ListSeparator THEN Append(front, <<>>)
             ELSE [front EXCEPT ![Len(front)] = Append(@, c)]

RECURSIVE deduplicate(_)
deduplicate(list) ==
    IF list = <<>> THEN <<>>
    ELSE LET front == deduplicate(SubSeq(list, 1, Len(list) - 1))
             last == list[Len(list)]
         IN  IF \E i \in DOMAIN front : front[i] = last THEN front
             ELSE Append(front, last)

NoLoadingRules == [ExplicitPath |-> <<>>, Precedence |-> <<>>, WarnIfAllMissing |-> FALSE]

fillLoadingRulesFromKubeConfigSpec_NoDeduplicate(loadingRules, kubeConfig) ==
    LET fileList == SplitList(kubeConfig)
    IN  IF Len(fileList) > 1
        THEN [loadingRules EXCEPT !.Precedence = fileList,
                                  !.WarnIfAllMissing = TRUE]
        ELSE [loadingRules EXCEPT !.ExplicitPath = kubeConfig]
fillLoadingRulesFromKubeConfigSpec(loadingRules, kubeConfig) ==
    LET fileList == SplitList(kubeConfig)
    IN  IF Len(fileList) > 1
        THEN [loadingRules EXCEPT !.Precedence = deduplicate(fileList),
                                  !.WarnIfAllMissing = TRUE]
        ELSE [loadingRules EXCEPT !.ExplicitPath = kubeConfig]

\* The configOverrides CreateKubernetesClientset builds: a string is taken
\* over when it is not empty, and the flag when it is true.
ConfigOverrides(ca) ==
    [f \in DOMAIN overridesMap |-> ca[overridesMap[f]]]
        @@ [InsecureSkipTLSVerify |-> ca.K8sInsecureSkipTLSVerify]

\* What a kubeconfig holds for the fields that can be overridden.
KubeconfigSettings(origin) ==
    [f \in DOMAIN overridesMap |-> origin] @@ [InsecureSkipTLSVerify |-> FALSE]

\* clientcmd.NewClientConfigFromBytes(inline), then ClientConfig(): the
\* settings of the inline kubeconfig.
ClientConfigFromBytes(inline) == KubeconfigSettings("inline")

\* The deferred-loading client configuration: the settings of the files the
\* loading rules name, with every override that is set laid over them.
DeferredLoadingClientConfig(loadingRules, overrides) ==
    LET loaded == KubeconfigSettings("file")
    IN  [f \in DOMAIN loaded |->
            IF f = "InsecureSkipTLSVerify" THEN loaded[f] \/ overrides[f]
            ELSE IF overrides[f] # Unset THEN overrides[f] ELSE loaded[f]]

\* Default QPS of a rest.Config.
DefaultQPS == 5

\* config.Burst = 100
Burst == 100

\* CreateKubernetesClientset(ca), given whether loading the kubeconfig and
\* building the clientset succeed: the rest.Config and the error returned.
CreateKubernetesClientset(ca, loads, builds) ==
    LET loadingRules ==
            IF ca.Kubeconfig # <<>>
            THEN fillLoadingRulesFromKubeConfigSpec(NoLoadingRules, ca.Kubeconfig)
            ELSE NoLoadingRules
        configOverrides == ConfigOverrides(ca)
        inline == ca.KubeconfigInline # Unset
        settings ==
            IF inline THEN ClientConfigFromBytes(ca.KubeconfigInline)
            ELSE DeferredLoadingClientConfig(loadingRules, configOverrides)
    IN  IF ~loads THEN [config |-> NoConfig, err |-> "load"]
        ELSE IF ~builds THEN [config |-> NoConfig, err |-> "clientset"]
        ELSE [config |->
                 [loaded |-> TRUE,
                  inline |-> inline,
                  loadingRules |-> IF inline THEN NoLoadingRules ELSE loadingRules,
                  settings |-> settings,
                  AcceptContentTypes |-> "application/vnd.kubernetes.protobuf,application/json",
                  ContentType |-> "application/vnd.kubernetes.protobuf",
                  QPS |-> IF ca.K8sClientQPS # 0 THEN ca.K8sClientQPS ELSE DefaultQPS,
                  Burst |-> Burst],
              err |-> "none"]

\* Settings a CalicoAPIConfigSpec may carry.
KubeconfigInputs == {<<>>, <<"a">>, <<"a", ":", "b", ":", "a">>}
InlineInputs == {Unset, "inline"}
OverrideInputs == {Unset, "override"}
QPSInputs == {0, 10}

ConfigSpecs ==
    [Kubeconfig : KubeconfigInputs,
     KubeconfigInline : InlineInputs,
     K8sCurrentContext : OverrideInputs,
     K8sAPIEndpoint : OverrideInputs,
     K8sCertFile : OverrideInputs,
     K8sKeyFile : OverrideInputs,
     K8sCAFile : OverrideInputs,
     K8sAPIToken : OverrideInputs,
     K8sInsecureSkipTLSVerify : BOOLEAN,
     K8sClientQPS : QPSInputs]

CreateClientset ==
    /\ configCa = NoConfig
    /\ \E ca \in ConfigSpecs, loads \in BOOLEAN, builds \in BOOLEAN :
          LET r == CreateKubernetesClientset(ca, loads, builds)
          IN  /\ configCa' = ca
              /\ config' = r.config
              /\ configErr' = r.err
    /\ UNCHANGED <<registryVars, store, nextRev, calls, ret, applyVars,
                   cleanVars, hostVars, fillKubeConfig, fillRules>>

\* A caller inside the package fills fresh loading rules from kubeConfig.
FillLoadingRules ==
    /\ fillRules = NoLoadingRules
    /\ fillRules' = fillLoadingRulesFromKubeConfigSpec(fillRules, fillKubeConfig)
    /\ UNCHANGED <<registryVars, store, nextRev, calls, ret, applyVars,
                   cleanVars, hostVars, config, configErr, configCa, fillKubeConfig>>

----------------------------------------------------------------------------
(* Host tunnel addresses. *)

\* Host-config keys and list queries carry a hostname and a config name.
HostConfigKey(hostname, name) == [type |-> "HostConfigKey", kind |-> name, name |-> hostname]
HostConfigListOptions(hostname, name) ==
    [type |-> "HostConfigListOptions", kind |-> name, name |-> hostname]

\* An IPv4 address is the 32-bit number of its four bytes.
IPv4(a, b, c, d) == ((a * 256 + b) * 256 + c) * 256 + d

\* A Spec.PodCIDR string: empty, not a CIDR, an IPv6 CIDR, or an IPv4
\* address with a prefix length.
PodCIDR(kind, ip, bits) == [kind |-> kind, ip |-> ip, bits |-> bits]
EmptyCIDR == PodCIDR("empty", 0, 0)
InvalidCIDR == PodCIDR("invalid", 0, 0)
V6CIDR == PodCIDR("v6", 0, 64)
V4CIDR(ip, bits) == PodCIDR("v4", ip, bits)

\* tunIp[3]++ on the four bytes of the address.
IncrementLastByte(ip) == (ip - (ip % 256)) + (((ip % 256) + 1) % 256)

TunResult(kvp, err) == [kvp |-> kvp, err |-> err]

\* getTunIp(n): ParseCIDR yields the address as written; To4 of an IPv6
\* address is nil, and indexing it panics.
getTunIp(hostname, cidr) ==
    IF cidr.kind = "empty" THEN TunResult(NilKVP, "nil")
    ELSE IF cidr.kind = "invalid" THEN TunResult(NilKVP, "ParseError")
    ELSE IF cidr.kind = "v6" THEN TunResult(NilKVP, "panic")
    ELSE TunResult(KVPair(HostConfigKey(hostname, "IpInIpTunnelAddr"),
                          Value(IncrementLastByte(cidr.ip), 0), NoRev), "nil")

Panic == [type |-> "panic", Identifier |-> NoKey, Operation |-> ""]

\* c.listHostConfig(ctx, l, revision), with the nodes the API server holds.
listHostConfig(l, revision) ==
    LET cs == <<Call(NilClient, "Nodes", l, NoValue, revision)>>
        tun(h) == getTunIp(h, nodes[h])
    IN  IF l.kind # "" /\ l.kind # "IpInIpTunnelAddr"
        THEN {Reads(NilKVP, {}, NoErr, <<>>)}
        ELSE IF l.name = ""
        THEN {Unavailable(l, cs),
              IF \E h \in DOMAIN nodes : tun(h).err = "panic"
              THEN Reads(NilKVP, {}, Panic, cs)
              ELSE Reads(NilKVP,
                         {tun(h).kvp : h \in {n \in DOMAIN nodes :
                                                 tun(n).err = "nil" /\ tun(n).kvp # NilKVP}},
                         NoErr, cs)}
        ELSE {Unavailable(l, cs)} \cup
             IF l.name \notin DOMAIN nodes
             THEN {Reads(NilKVP, {}, ErrorResourceDoesNotExist(l), cs)}
             ELSE IF tun(l.name).err = "panic" THEN {Reads(NilKVP, {}, Panic, cs)}
             ELSE IF tun(l.name).err # "nil" \/ tun(l.name).kvp = NilKVP
             THEN {Reads(NilKVP, {}, NoErr, cs)}
             ELSE {Reads(NilKVP, {tun(l.name).kvp}, NoErr, cs)}

\* A caller inside the package calls listHostConfig.
ListHostConfig(lists) ==
    /\ constructed
    /\ \E l \in lists : \E o \in listHostConfig(l, NoRev) :
          hostRet' = Ret("listHostConfig", l, NoValue, NoRev, o)
    /\ UNCHANGED <<registryVars, store, nextRev, calls, ret, applyVars,
                   cleanVars, configVars, nodes>>

----------------------------------------------------------------------------
(* Specifications. *)

InitRegistry ==
    /\ newPc = "new"
    /\ regIdx = 0
    /\ usePodCIDR = FALSE
    /\ clientsByResourceKind = EmptyMap
    /\ clientsByKeyType = EmptyMap
    /\ clientsByListType = EmptyMap
    /\ newErr = "none"

InitApply ==
    /\ applyPc = "idle"
    /\ applyKvp = NilKVP
    /\ applyCalls = <<>>
    /\ applyRet = ApplyRetOf(NilKVP, NoErr)

InitClean ==
    /\ cleanPc = "idle"
    /\ cleanIdx = 0
    /\ cleanItems = {}
    /\ cleanListed = <<>>
    /\ cleanAttempts = <<>>
    /\ cleanUpdates = <<>>
    /\ cleanCalls = <<>>
    /\ cleanRet = "none"

InitConfig ==
    /\ config = NoConfig
    /\ configErr = "none"
    /\ configCa = NoConfig
    /\ fillKubeConfig = <<>>
    /\ fillRules = NoLoadingRules

InitHost ==
    /\ nodes = <<>>
    /\ hostRet = NoRet

Init ==
    /\ InitRegistry
    /\ store = EmptyStore
    /\ nextRev = 1
    /\ calls = <<>>
    /\ ret = NoRet
    /\ InitApply
    /\ InitClean
    /\ InitConfig
    /\ InitHost

\* Keys and list queries callers use: registered and unregistered generic
\* kinds, narrow keys registered in one IPAM mode only, and the keys of the
\* derived values.
OpKeys == {ResourceKey("BGPPeer", "a"), ResourceKey("Unknown", "a"),
           NarrowKey("BlockAffinityKey", "a"), NarrowKey("ReadyFlagKey", "")}
OpLists == {ResourceListOptions("BGPPeer"), ResourceListOptions("Unknown"),
            NarrowList("BlockAffinityListOptions"),
            NarrowList("HostConfigListOptions"), NilList}

Next ==
    \/ NewKubeClient
    \/ Register
    \/ Create(OpKeys)
    \/ Update(OpKeys)
    \/ DeleteKVP(OpKeys)
    \/ Delete(OpKeys)
    \/ Get(OpKeys)
    \/ List(OpLists)
    \/ Watch(OpLists)

Spec == Init /\ [][Next]_vars

\* Apply by one caller, with a second writer on the same keys.
ApplyKeys == {ResourceKey("BGPPeer", "a"), ResourceKey("Unknown", "a")}

NextApply ==
    \/ NewKubeClient
    \/ Register
    \/ ApplyCall(ApplyKeys)
    \/ ApplyCreate
    \/ ApplyUpdate
    \/ ApplyReturn
    \/ Create(ApplyKeys)
    \/ Update(ApplyKeys)
    \/ Delete(ApplyKeys)

SpecApply == Init /\ [][NextApply]_vars

----------------------------------------------------------------------------
(* Derived values. *)

\* The value true of the readiness flag.
TrueValue == Value(1, 0)

\* c.getReadyStatus(ctx, k, revision)
getReadyStatus(k, revision) == Reads(KVPair(k, TrueValue, NoRev), {}, NoErr, <<>>)

----------------------------------------------------------------------------
(* Properties of the dispatch operations. *)

\* The handler the registry resolves for the argument of an operation.
Resolved(op, arg) ==
    IF op \in {"List", "Watch"} THEN getResourceClientFromList(arg)
    ELSE getResourceClientFromKey(arg)

\* C1: an operation on a key or list query without a registered handler
\* returns a Not Supported error that carries the argument as Identifier and
\* the name of the invoked operation as Operation.
C1_NotSupportedNamesOperation ==
    (constructed /\ ret.op # "" /\ Resolved(ret.op, ret.arg) = NilClient)
        => ret.err = ErrorOperationNotSupported(ret.arg, ret.op)

\* C2: when Apply has returned, its first call was Create; if that failed
\* with Already Exists, Update was called exactly once, with the caller's
\* KVPair and revision as given; if it failed otherwise, Update was not
\* called and Apply returned that error; if it succeeded, Update was not
\* called and Apply returned the result of Create.
C2_ApplyFallback ==
    applyPc = "done" =>
        /\ Len(applyCalls) >= 1
        /\ applyCalls[1].op = "Create"
        /\ IF applyCalls[1].err = NoErr
           THEN /\ Len(applyCalls) = 1
                /\ applyRet = ApplyRetOf(applyCalls[1].res, NoErr)
           ELSE IF applyCalls[1].err.type = "ErrorResourceAlreadyExists"
           THEN /\ Len(applyCalls) = 2
                /\ applyCalls[2].op = "Update"
                /\ applyCalls[2].arg = applyKvp
           ELSE /\ Len(applyCalls) = 1
                /\ applyRet = ApplyRetOf(NilKVP, applyCalls[1].err)

\* Apply fell back to Update with a KVPair that carries a revision, and the
\* Update succeeded.
C2_Witness ==
    /\ applyPc = "done"
    /\ Len(applyCalls) = 2
    /\ applyKvp.Revision # NoRev
    /\ applyRet.err = NoErr

\* C3: Apply makes at most one Create and one Update and never tries again:
\* when its Update fails, whatever the reason, Apply returns that error and
\* no result.
C3_ApplyNoRetry ==
    /\ Len(applyCalls) <= 2
    /\ (applyPc = "done" /\ Len(applyCalls) = 2) =>
          /\ applyRet.err = applyCalls[2].err
          /\ applyRet.res = applyCalls[2].res
          /\ (applyCalls[2].err # NoErr => applyRet.res = NilKVP)

\* The resource existed when Apply tried Create and was gone when it tried
\* Update: a second writer deleted it in between, and Apply returned Not Found.
C3_Witness ==
    /\ applyPc = "done"
    /\ Len(applyCalls) = 2
    /\ applyCalls[1].err.type = "ErrorResourceAlreadyExists"
    /\ applyCalls[2].err.type = "ErrorResourceDoesNotExist"
    /\ applyRet.err.type = "ErrorResourceDoesNotExist"

\* C4: an operation that finds no handler invokes no handler method and
\* leaves the API server's objects as they were.
C4_NoHandlerNoIO ==
    [][(constructed /\ Resolved(ret'.op, ret'.arg) = NilClient)
          => (calls' = <<>> /\ store' = store /\ nextRev' = nextRev)]_vars

\* An operation was refused as Not Supported while the API server held objects.
C4_Witness ==
    /\ ret.err.type = "ErrorOperationNotSupported"
    /\ calls = <<>>
    /\ store # EmptyStore

----------------------------------------------------------------------------
(* Properties of the registry. *)

IPAMKeyTypes == {"BlockKey", "BlockAffinityKey", "IPAMHandleKey", "IPAMConfigKey"}
IPAMListTypes == {"BlockListOptions", "BlockAffinityListOptions", "IPAMHandleListOptions"}

NarrowRegistered ==
    /\ \A t \in IPAMKeyTypes : getResourceClientFromKey(NarrowKey(t, "a")) # NilClient
    /\ \A t \in IPAMListTypes : getResourceClientFromList(NarrowList(t)) # NilClient

NarrowUnregistered ==
    /\ \A t \in IPAMKeyTypes : getResourceClientFromKey(NarrowKey(t, "a")) = NilClient
    /\ \A t \in IPAMListTypes : getResourceClientFromList(NarrowList(t)) = NilClient

\* C5 as stated: the narrow IPAM key and list types are registered when
\* K8sUsePodCIDR is true and not registered when it is false.
C5_NarrowWhenPodCIDR ==
    constructed => IF usePodCIDR THEN NarrowRegistered ELSE NarrowUnregistered

\* C5 amended: the narrow IPAM key and list types are registered when
\* K8sUsePodCIDR is false (Calico IPAM) and not registered when it is true.
C5_NarrowWhenCalicoIPAM ==
    constructed => IF usePodCIDR THEN NarrowUnregistered ELSE NarrowRegistered

C5_Witness == constructed /\ ~usePodCIDR /\ NarrowRegistered

\* The narrow key type and the generic kind of the resources reachable both ways.
SharedResources == {<<"BlockAffinityKey", "BlockAffinity">>, <<"IPAMConfigKey", "IPAMConfig">>}

\* C8 as stated: the handler resolved from the narrow key type is the same
\* instance as the one resolved from the generic key of the same kind.
C8_SameInstance ==
    constructed => \A r \in SharedResources :
        getResourceClientFromKey(NarrowKey(r[1], "a")) # NilClient =>
            getResourceClientFromKey(NarrowKey(r[1], "a"))
                = getResourceClientFromKey(ResourceKey(r[2], "a"))

\* C8 amended: in Calico IPAM mode the narrow key type and the generic kind
\* resolve to two separately constructed handlers made by the same
\* constructor; in pod-CIDR mode the narrow key type resolves to no handler.
C8_SameConstructorDistinctInstance ==
    constructed => \A r \in SharedResources :
        LET narrow == getResourceClientFromKey(NarrowKey(r[1], "a"))
            generic == getResourceClientFromKey(ResourceKey(r[2], "a"))
        IN  /\ generic # NilClient
            /\ IF usePodCIDR THEN narrow = NilClient
               ELSE /\ narrow # NilClient
                    /\ narrow.ctor = generic.ctor
                    /\ narrow.inst # generic.inst

C8_Witness ==
    /\ constructed
    /\ getResourceClientFromKey(NarrowKey("BlockAffinityKey", "a")) # NilClient
    /\ getResourceClientFromKey(NarrowKey("IPAMConfigKey", "a")) # NilClient

\* C6: a Get for the readiness flag returns the key with the value true, and
\* invokes no handler.
C6_ReadyFlagAlwaysTrue ==
    (ret.op = "Get" /\ ret.arg.type = "ReadyFlagKey") =>
        /\ Ret("Get", ret.arg, NoValue, NoRev, getReadyStatus(ret.arg, NoRev)) = ret
        /\ calls = <<>>

----------------------------------------------------------------------------
(* Clean on an API server that already holds objects. *)

\* Objects the API server may hold when Clean starts.
CleanObjects ==
    {<<"NewBGPPeerClient", "a">>, <<"NewBlockAffinityClient", "a">>,
     <<"NewNodeClient", "a">>, <<"NewProfileClient", "a">>,
     <<"NewIPAMConfigClient", IPAMConfigGlobalName>>}

InitCleanStore ==
    \E held \in SUBSET CleanObjects :
        store = [id \in held |-> [value |-> Value(1, 1), rev |-> 1]]

InitForClean ==
    /\ InitRegistry
    /\ InitCleanStore
    /\ nextRev = 2
    /\ calls = <<>>
    /\ ret = NoRet
    /\ InitApply
    /\ InitClean
    /\ InitConfig
    /\ InitHost

NextClean ==
    \/ NewKubeClient
    \/ Register
    \/ CleanCall
    \/ CleanList
    \/ CleanItem
    \/ CleanDeleteIPAMConfig

SpecClean == InitForClean /\ [][NextClean]_vars

\* Every list query Clean is to issue, in order.
CleanQueries ==
    [i \in 1 .. Len(CleanKinds) |-> ResourceListOptions(CleanKinds[i])]
        \o CleanIPAMLists \o <<ResourceListOptions("Node")>>

\* C7: when Clean has returned it has returned nil, has issued every list
\* query (every kind, every IPAM list type, the nodes), has attempted the
\* delete of the global IPAM config, and has made exactly one delete attempt
\* for every item it listed, whichever of its requests failed.
C7_CleanBestEffort ==
    cleanPc = "done" =>
        /\ cleanRet = "nil"
        /\ cleanListed = CleanQueries
        /\ NarrowKey("IPAMConfigKey", "") \in DOMAIN cleanAttempts
        /\ \A k \in DOMAIN cleanAttempts : cleanAttempts[k] = 1

----------------------------------------------------------------------------
(* The client configuration, for every CalicoAPIConfigSpec. *)

NextConfig == CreateClientset

SpecConfig == Init /\ [][NextConfig]_vars

\* C9: in the configuration CreateKubernetesClientset returns, every
\* override that is set has taken effect and every override that is not set
\* has left the setting of the kubeconfig, whether the kubeconfig was given
\* inline or loaded from files.
C9_OverridesOnEveryPath ==
    config # NoConfig =>
        LET base == KubeconfigSettings(IF config.inline THEN "inline" ELSE "file")
        IN  /\ \A f \in DOMAIN overridesMap :
                  config.settings[f] =
                      IF configCa[overridesMap[f]] # Unset
                      THEN configCa[overridesMap[f]] ELSE base[f]
            /\ config.settings.InsecureSkipTLSVerify =
                  (configCa.K8sInsecureSkipTLSVerify \/ base.InsecureSkipTLSVerify)

----------------------------------------------------------------------------
(* Host tunnel addresses, for the nodes of a cluster. *)

Hostnames == {"n1", "n2"}

\* Pod CIDRs a node may carry.
PodCIDRs == {EmptyCIDR, InvalidCIDR, V6CIDR, V4CIDR(IPv4(10, 1, 2, 0), 24),
             V4CIDR(IPv4(10, 1, 2, 5), 24), V4CIDR(IPv4(10, 1, 3, 255), 24)}

InitForHost ==
    /\ InitRegistry
    /\ store = EmptyStore
    /\ nextRev = 1
    /\ calls = <<>>
    /\ ret = NoRet
    /\ InitApply
    /\ InitClean
    /\ InitConfig
    /\ nodes \in [Hostnames -> PodCIDRs]
    /\ hostRet = NoRet

HostLists == {HostConfigListOptions("", ""), HostConfigListOptions("", "IpInIpTunnelAddr"),
              HostConfigListOptions("n1", "IpInIpTunnelAddr"),
              HostConfigListOptions("", "Other")}

NextHost ==
    \/ NewKubeClient
    \/ Register
    \/ List(HostLists)
    \/ ListHostConfig(HostLists)

SpecHost == InitForHost /\ [][NextHost]_vars

\* Hosts whose pod CIDR is not empty and parses.
UsableHosts == {h \in DOMAIN nodes : nodes[h].kind \in {"v4", "v6"}}

\* C10: a List on the adapter with a host-config list query over all hosts
\* does not fail, whatever the pod CIDRs, and returns exactly one KVPair per
\* node with a usable pod CIDR, keyed by the hostname and IpInIpTunnelAddr.
C10_ListReachesHostConfig ==
    (ret.op = "List" /\ ret.arg.type = "HostConfigListOptions"
         /\ ret.arg.name = "" /\ ret.arg.kind \in {"", "IpInIpTunnelAddr"}
         /\ ret.err.type # "ErrorDatastoreError") =>
        /\ ret.err = NoErr
        /\ {r.Key : r \in ret.list}
              = {HostConfigKey(h, "IpInIpTunnelAddr") : h \in UsableHosts}
        /\ Cardinality(ret.list) = Cardinality(UsableHosts)

\* The network address of an IPv4 CIDR: the address with its host bits
\* cleared; and the addresses the CIDR holds.
HostBits(cidr) == 2 ^ (32 - cidr.bits)
NetworkAddress(cidr) == cidr.ip - (cidr.ip % HostBits(cidr))
InCIDR(ip, cidr) ==
    NetworkAddress(cidr) <= ip /\ ip < NetworkAddress(cidr) + HostBits(cidr)

\* C11: every tunnel address listHostConfig returns for a node with an IPv4
\* pod CIDR is the network address of that CIDR plus one in the last octet,
\* and lies inside the CIDR, also when the CIDR is written with host bits.
C11_TunnelIsNetworkPlusOne ==
    (hostRet.op = "listHostConfig" /\ hostRet.err = NoErr) =>
        \A r \in hostRet.list :
            LET cidr == nodes[r.Key.name]
            IN  /\ r.Value.data = NetworkAddress(cidr) + 1
                /\ InCIDR(r.Value.data, cidr)

----------------------------------------------------------------------------
(* Lookup in the registry after construction. *)

\* The positions of the generic and of the narrow registerResourceClient
\* calls among the calls NewKubeClient made.
GenericCalls ==
    {i \in DOMAIN Registrations(usePodCIDR) :
        Registrations(usePodCIDR)[i].keyType = resourceKeyType}
NarrowCalls == DOMAIN Registrations(usePodCIDR) \ GenericCalls

\* Kinds a caller may name: those of every registration, and others.
Kinds ==
    {GenericRegistrations[i].kind : i \in DOMAIN GenericRegistrations}
        \cup {IPAMRegistrations[i].kind : i \in DOMAIN IPAMRegistrations}
        \cup {"Unknown", ""}

\* C12: after construction each kind was registered by exactly one generic
\* call, a generic key or list query of that kind resolves to the handler
\* instance that call registered, and a generic key or list query of any
\* other kind resolves to no handler.
C12_RegistryLookup ==
    constructed =>
        LET made == Registrations(usePodCIDR)
        IN  /\ \A i \in GenericCalls, j \in GenericCalls :
                  made[i].kind = made[j].kind => i = j
            /\ \A i \in GenericCalls :
                  /\ getResourceClientFromKey(ResourceKey(made[i].kind, "a"))
                        = Client(made[i].ctor, i)
                  /\ getResourceClientFromList(ResourceListOptions(made[i].kind))
                        = Client(made[i].ctor, i)
            /\ \A k \in Kinds \ {made[i].kind : i \in GenericCalls} :
                  /\ getResourceClientFromKey(ResourceKey(k, "a")) = NilClient
                  /\ getResourceClientFromList(ResourceListOptions(k)) = NilClient

C12_Witness ==
    /\ constructed
    /\ ~usePodCIDR
    /\ getResourceClientFromList(ResourceListOptions("BlockAffinity")) # NilClient
    /\ getResourceClientFromKey(ResourceKey("IPAMBlock", "a")) = NilClient
    /\ ret.op = "Get" /\ ret.arg = ResourceKey("BGPPeer", "a") /\ Len(calls) = 1

\* One registerResourceClient call of NewKubeClient changes only the tables
\* of its own namespace, and in them only the entry it names.
OnlyEntryChanged(old, new, k) ==
    /\ DOMAIN new = DOMAIN old \cup {k}
    /\ \A x \in DOMAIN old \ {k} : new[x] = old[x]

RegisterFrame ==
    newPc = "register" =>
        LET r == Registrations(usePodCIDR)[regIdx + 1]
        IN  IF r.keyType = resourceKeyType
            THEN /\ clientsByKeyType' = clientsByKeyType
                 /\ clientsByListType' = clientsByListType
                 /\ OnlyEntryChanged(clientsByResourceKind, clientsByResourceKind', r.kind)
            ELSE /\ clientsByResourceKind' = clientsByResourceKind
                 /\ OnlyEntryChanged(clientsByKeyType, clientsByKeyType', r.keyType)
                 /\ OnlyEntryChanged(clientsByListType, clientsByListType', r.listType)

\* After construction a narrow key resolves to the handler registered for
\* its type and a generic key to the handler registered for its kind.
ResolvesOwnHandler ==
    constructed =>
        LET made == Registrations(usePodCIDR)
        IN  /\ \A i \in NarrowCalls :
                  getResourceClientFromKey(NarrowKey(made[i].keyType, "a"))
                      = Client(made[i].ctor, i)
            /\ \A i \in GenericCalls :
                  getResourceClientFromKey(ResourceKey(made[i].kind, "a"))
                      = Client(made[i].ctor, i)

\* C13: registering a narrow key type changes only the key-type and
\* list-type tables, registering a generic kind changes only the kind table,
\* and so every generic key resolves to the handler of its kind and every
\* narrow key to the handler of its type, whatever else was registered.
C13_IndependentRouting == []ResolvesOwnHandler /\ [][RegisterFrame]_vars

C13_Witness ==
    /\ constructed
    /\ ~usePodCIDR
    /\ getResourceClientFromKey(NarrowKey("BlockAffinityKey", "a")).inst
          # getResourceClientFromKey(ResourceKey("BlockAffinity", "a")).inst
    /\ getResourceClientFromKey(ResourceKey("BlockAffinity", "a")) # NilClient
    /\ ret.op = "Get" /\ ret.arg = NarrowKey("BlockAffinityKey", "a")
    /\ Len(calls) = 1

----------------------------------------------------------------------------
(* Every backend operation, by concurrent callers of one adapter. *)

\* c.EnsureInitialized() and c.Close(): both return nil and do nothing else.
EnsureInitialized ==
    /\ constructed
    /\ Returns("EnsureInitialized", NoKey, NoValue, NoRev,
               Reads(NilKVP, {}, NoErr, <<>>))

Close ==
    /\ constructed
    /\ Returns("Close", NoKey, NoValue, NoRev, Reads(NilKVP, {}, NoErr, <<>>))

AllKeys == {ResourceKey("BGPPeer", "a")}
AllLists == {ResourceListOptions("BGPPeer")}

\* One caller runs Apply, any number of times, and then Clean; the other
\* callers issue the single-call operations at any moment in between.
SequentialApplyCall == cleanPc = "idle" /\ ApplyCall(AllKeys)
SequentialCleanCall == applyPc = "idle" /\ CleanCall

NextAll ==
    \/ NewKubeClient
    \/ Register
    \/ Create(AllKeys)
    \/ Update(AllKeys)
    \/ DeleteKVP(AllKeys)
    \/ Delete(AllKeys)
    \/ Get(AllKeys)
    \/ List(AllLists)
    \/ Watch(AllLists)
    \/ EnsureInitialized
    \/ Close
    \/ SequentialApplyCall
    \/ ApplyCreate
    \/ ApplyUpdate
    \/ ApplyReturn
    \/ SequentialCleanCall
    \/ CleanList
    \/ CleanItem
    \/ CleanDeleteIPAMConfig

SpecAll == Init /\ [][NextAll]_vars

\* C14: once NewKubeClient has returned the adapter, no step of any operation
\* changes the kind table, the key-type table or the list-type table.
C14_RegistryFrozen ==
    [][constructed => UNCHANGED <<clientsByResourceKind, clientsByKeyType,
                                  clientsByListType>>]_vars

C14_Witness ==
    /\ constructed
    /\ cleanPc = "done"
    /\ cleanAttempts # <<>>
    /\ ret.op = "Close"
    /\ store # EmptyStore

----------------------------------------------------------------------------
(* What Apply hands on and what it leaves to its caller. *)

\* The first call of a running or finished Apply is a Create of the
\* caller's key and value with no revision.
ApplyCreateStripped ==
    Len(applyCalls) >= 1 =>
        /\ applyCalls[1].op = "Create"
        /\ applyCalls[1].arg =
              [Key |-> applyKvp.Key, Value |-> applyKvp.Value, Revision |-> NoRev]

\* No step of a running Apply changes the caller's KVPair.
ApplyKeepsKvp == applyPc \in {"create", "update"} => applyKvp' = applyKvp

\* C15: Apply's Create is made with the caller's key and value and an empty
\* revision, whatever revision the caller supplied, and the caller's KVPair
\* is the same when Apply returns as when it was called.
C15_CreateWithoutRevision == []ApplyCreateStripped /\ [][ApplyKeepsKvp]_vars

C15_Witness ==
    /\ applyPc = "done"
    /\ applyKvp.Revision # NoRev
    /\ Len(applyCalls) = 1
    /\ applyCalls[1].arg.Revision = NoRev
    /\ applyRet.err = NoErr

----------------------------------------------------------------------------
(* Apply as create-or-update. *)

\* The object the running Apply is about, as the API server holds it.
ApplyTarget == Stored(store, ObjId(getResourceClientFromKey(applyKvp.Key), applyKvp.Key))
ApplyTargetAfter == Stored(store', ObjId(getResourceClientFromKey(applyKvp.Key), applyKvp.Key))

\* The step in which Apply's Create, or its Update, returns and Apply with
\* it, the handler having answered.
ApplyEndsByCreate ==
    /\ applyPc = "create" /\ applyPc' = "done"
    /\ getResourceClientFromKey(applyKvp.Key) # NilClient
    /\ applyRet'.err.type # "ErrorDatastoreError"
ApplyEndsByUpdate ==
    /\ applyPc = "update" /\ applyPc' = "done"
    /\ applyRet'.err.type # "ErrorDatastoreError"

ApplySucceeds ==
    /\ applyRet'.err = NoErr
    /\ ApplyTargetAfter # Absent
    /\ ApplyTargetAfter.value = applyKvp.Value

----------------------------------------------------------------------------
(* Kubeconfig path lists. *)

MaxPathLen == 5
PathChars == {"a", "b", ListSeparator}

\* Every kubeconfig setting of up to MaxPathLen characters.
KubeconfigPaths == UNION {[1 .. n -> PathChars] : n \in 0 .. MaxPathLen}

InitForRules ==
    /\ InitRegistry
    /\ store = EmptyStore
    /\ nextRev = 1
    /\ calls = <<>>
    /\ ret = NoRet
    /\ InitApply
    /\ InitClean
    /\ config = NoConfig
    /\ configErr = "none"
    /\ configCa = NoConfig
    /\ fillKubeConfig \in KubeconfigPaths
    /\ fillRules = NoLoadingRules
    /\ InitHost

NextRules == FillLoadingRules

SpecRules == InitForRules /\ [][NextRules]_vars

\* The entries of a path list, told by where its separators are: an entry
\* lies between two neighbouring cuts.
Cuts(path) ==
    {0, Len(path) + 1} \cup {i \in DOMAIN path : path[i] = ListSeparator}
EntryAt(path, lo) ==
    LET hi == CHOOSE c \in Cuts(path) :
                  c > lo /\ \A d \in Cuts(path) : d > lo => c <= d
    IN  SubSeq(path, lo + 1, hi - 1)
EntryStarts(path) == Cuts(path) \ {Len(path) + 1}
FirstStart(path, entry) ==
    CHOOSE lo \in EntryStarts(path) :
        /\ EntryAt(path, lo) = entry
        /\ \A d \in EntryStarts(path) : EntryAt(path, d) = entry => lo <= d

\* C17: a kubeconfig setting of two or more entries gives a precedence list
\* holding every distinct entry once, in the order of first occurrence, with
\* WarnIfAllMissing set and no explicit path; a setting of one entry gives
\* that entry as explicit path, no precedence list and no WarnIfAllMissing.
C17_KubeconfigPaths ==
    (fillRules # NoLoadingRules) =>
        LET starts == EntryStarts(fillKubeConfig)
            prec == fillRules.Precedence
        IN  IF Cardinality(starts) >= 2
            THEN /\ fillRules.WarnIfAllMissing
                 /\ fillRules.ExplicitPath = <<>>
                 /\ {prec[i] : i \in DOMAIN prec}
                       = {EntryAt(fillKubeConfig, lo) : lo \in starts}
                 /\ \A i \in DOMAIN prec, j \in DOMAIN prec :
                       i < j => /\ prec[i] # prec[j]
                                /\ FirstStart(fillKubeConfig, prec[i])
                                      < FirstStart(fillKubeConfig, prec[j])
            ELSE /\ fillRules.ExplicitPath = fillKubeConfig
                 /\ fillRules.Precedence = <<>>
                 /\ ~fillRules.WarnIfAllMissing

C17_Witness ==
    /\ fillKubeConfig = <<"a", ":", "b", ":", "a">>
    /\ fillRules.Precedence = << <<"a">>, <<"b">> >>
    /\ fillRules.WarnIfAllMissing

----------------------------------------------------------------------------
(* Construction of the adapter. *)

\* C18: a NewKubeClient call that fails to load the configuration or to
\* build the clientset, the CRD client or the admin-policy client returns
\* the error and no adapter and registers nothing; an adapter exists only
\* when nothing failed, and is handed out only with every registration made.
C18_AllOrNothing ==
    /\ newErr # "none" =>
          /\ newPc = "new"
          /\ regIdx = 0
          /\ clientsByResourceKind = EmptyMap
          /\ clientsByKeyType = EmptyMap
          /\ clientsByListType = EmptyMap
    /\ newPc # "new" => newErr = "none"
    /\ constructed => regIdx = Len(Registrations(usePodCIDR))
    /\ ret.op # "" => constructed

C18_Witness ==
    /\ newErr = "adminpolicy"
    /\ newPc = "new"
    /\ regIdx = 0
    /\ ret = NoRet

----------------------------------------------------------------------------
(* Delegation to the resolved handler. *)

DispatchOps == {"Create", "Update", "Delete", "DeleteKVP", "Get", "List", "Watch"}

\* C19: an operation that resolves a handler has called that handler once,
\* by the method of the operation's name and with the caller's arguments,
\* has called nothing else, and has returned to the caller the result and
\* the error the handler returned.
C19_DelegatesOnce ==
    (constructed /\ ret.op \in DispatchOps
         /\ Resolved(ret.op, ret.arg) # NilClient) =>
        /\ Len(calls) = 1
        /\ calls[1].client = Resolved(ret.op, ret.arg)
        /\ calls[1].method = ret.op
        /\ calls[1].key = ret.arg
        /\ calls[1].value = ret.value
        /\ calls[1].revision = ret.revision
        /\ ret.res = calls[1].res
        /\ ret.list = calls[1].list
        /\ ret.err = calls[1].err

C19_Witness ==
    /\ ret.op = "Update"
    /\ ret.revision # NoRev
    /\ Len(calls) = 1
    /\ calls[1].err = ErrorResourceUpdateConflict(ret.arg)
    /\ ret.err = ErrorResourceUpdateConflict(ret.arg)

----------------------------------------------------------------------------
(* Registration without a list type. *)

\* C20: a narrow registration without a list type leaves the list-type
\* table without an entry for it, so a List or Watch whose list query has no
\* registered list type, the absent query included, finds no handler and
\* returns Not Supported.
C20_NoListTypeNoListEntry ==
    constructed =>
        /\ DOMAIN clientsByListType
              = {Registrations(usePodCIDR)[i].listType : i \in NarrowCalls} \ {NilType}
        /\ (ret.op \in {"List", "Watch"} /\ ret.arg = NilList) =>
              /\ ret.err = ErrorOperationNotSupported(ret.arg, ret.op)
              /\ calls = <<>>

----------------------------------------------------------------------------
(* What Clean deletes and what it leaves alone. *)

\* Kinds whose instances Clean is to leave in place.
KeptKinds ==
    {"Node", "Profile", "WorkloadEndpoint", "KubernetesNetworkPolicy",
     "KubernetesAdminNetworkPolicy", "KubernetesBaselineAdminNetworkPolicy",
     "KubernetesEndpointSlice", "KubernetesService"}

KindClient(kind) == getResourceClientFromKey(ResourceKey(kind, "a"))
NodeClient == KindClient("Node")

\* Handlers Clean may delete from: those of the kinds of its list, of the
\* IPAM list types, and of the IPAM-config key.
CleanedClients ==
    ({KindClient(CleanKinds[i]) : i \in DOMAIN CleanKinds}
        \cup {getResourceClientFromList(CleanIPAMLists[i]) : i \in DOMAIN CleanIPAMLists}
        \cup {getResourceClientFromKey(NarrowKey("IPAMConfigKey", ""))})
      \ {NilClient}

Deletes == {"Delete", "DeleteKVP"}

\* The calls Clean has made on the Node handler to update a node.
NodeUpdates ==
    {i \in DOMAIN cleanCalls :
        cleanCalls[i].client = NodeClient /\ cleanCalls[i].method = "Update"}

\* The KVPairs the Node handler has listed for Clean before call i.
NodesListedBefore(i) ==
    UNION {cleanCalls[j].list :
              j \in {k \in 1 .. (i - 1) :
                        cleanCalls[k].client = NodeClient
                            /\ cleanCalls[k].method = "List"}}

\* C21: Clean calls Delete and DeleteKVP only on the handlers of the kinds of
\* its list, of the IPAM list types and of the IPAM-config key, never on
\* those of the kinds it is to leave in place; on the Node handler it calls
\* only List and Update, each Update carrying a listed node's key and
\* revision and its value with the BGP spec cleared and nothing else changed,
\* and when Clean has returned every listed node was updated exactly once.
C21_CleanDeletesOnlyItsKinds ==
    /\ \A i \in DOMAIN cleanCalls :
          /\ cleanCalls[i].method \in Deletes =>
                /\ cleanCalls[i].client \in CleanedClients
                /\ cleanCalls[i].client \notin {KindClient(k) : k \in KeptKinds}
          /\ cleanCalls[i].client = NodeClient =>
                cleanCalls[i].method \in {"List", "Update"}
    /\ \A i \in NodeUpdates :
          \E r \in NodesListedBefore(i) :
              /\ cleanCalls[i].key = r.Key
              /\ cleanCalls[i].revision = r.Revision
              /\ cleanCalls[i].value = [r.Value EXCEPT !.bgp = 0]
    /\ cleanPc = "done" =>
          \A r \in NodesListedBefore(Len(cleanCalls) + 1) :
              Cardinality({i \in NodeUpdates : cleanCalls[i].key = r.Key}) = 1

C21_Witness ==
    /\ cleanPc = "done"
    /\ \E i \in NodeUpdates :
          /\ cleanCalls[i].value.bgp = 0
          /\ \E r \in NodesListedBefore(i) : r.Value.bgp # 0
    /\ \E i \in DOMAIN cleanCalls : cleanCalls[i].method = "DeleteKVP"
    /\ \E i \in DOMAIN cleanCalls : cleanCalls[i].method = "Delete"
    /\ <<"NewProfileClient", "a">> \in DOMAIN store
    /\ <<"NewNodeClient", "a">> \in DOMAIN store
    /\ store[<<"NewNodeClient", "a">>].value.bgp = 0

====
